---- MODULE Spec2Model ----
(***************************************************************************)
(* A model of mantra-miner (src/src/lib.rs): a MantraMiner owns a shared   *)
(* counter and an optional cancellation sender; start() spawns a worker    *)
(* thread that runs MantraMiner::run, stop() signals it.  One action per   *)
(* public operation and per step of the worker's loop.                     *)
(*                                                                         *)
(* Option<T> is a sequence: None is <<>>, Some(x) is <<x>>.  A String is a  *)
(* sequence of one-character strings; a syllable is a string.              *)
(***************************************************************************)
EXTENDS Naturals, Sequences, FiniteSets

\* ------------------------------------------------------------- bounds

\* The number of start() calls in one behaviour.
MaxStarts == 2

\* The largest Some(n) of Options::repeats drawn by Init.
MaxRepeats == 2

\* A worker with repeats = None begins no more iterations of its own than
\* this: the model's stand-in for "forever".
MaxRunCount == MaxRepeats

\* No run of the model counts further than this.
MaxTotal == MaxStarts * MaxRunCount

\* ------------------------------------------------------------- Option<T>

None == << >>

Some(x) == << x >>

UnwrapOr(o, d) == IF o = None THEN d ELSE o[1]

\* ------------------------------------------------------------- emission

RECURSIVE Repeat(_, _)
\* `for _ in 0..n { s }`: the writes of s, n times over.
Repeat(s, n) == IF n = 0 THEN << >> ELSE s \o Repeat(s, n - 1)

RECURSIVE SyllableWrites(_)
\* One pass over the syllables: each is written, then the line terminator.
SyllableWrites(syllables) ==
    IF syllables = << >> THEN << >>
    ELSE << Head(syllables), "\n" >> \o SyllableWrites(Tail(syllables))

\* Mantra::recite: the sequence of write_all calls it makes.
MantraRecite(mantra) ==
    Repeat(SyllableWrites(mantra.syllables), UnwrapOr(mantra.repeats, 1))

\* MantraMiner::recite_string: None writes nothing, Some(s) writes s one
\* character at a time.
ReciteString(input) == IF input = None THEN << >> ELSE input[1]

RECURSIVE MantrasWrites(_)
\* `for mantra in &options.mantras { mantra.recite(..)? }`
MantrasWrites(mantras) ==
    IF mantras = << >> THEN << >>
    ELSE MantraRecite(Head(mantras)) \o MantrasWrites(Tail(mantras))

\* The writes of one iteration of the loop of MantraMiner::run, in order.
IterationWrites(o) ==
    Repeat(ReciteString(o.preparation), UnwrapOr(o.preparation_repeats, 1))
        \o MantrasWrites(o.mantras)
        \o Repeat(ReciteString(o.conclusion), UnwrapOr(o.conclusion_repeats, 1))

LoosePastBudget(repeats, run_count) ==
    IF repeats = None THEN TRUE ELSE run_count <= repeats[1]

NoneMeansNever(repeats, run_count) ==
    IF repeats = None THEN FALSE ELSE run_count < repeats[1]

\* Options::should_repeat
ShouldRepeat(repeats, run_count) ==
    IF repeats = None THEN TRUE ELSE run_count < repeats[1]

\* ------------------------------------------------------------- inputs

\* Options::default(): nothing to recite.
EmptyScript ==
    [preparation |-> None, preparation_repeats |-> None, mantras |-> << >>,
     conclusion |-> None, conclusion_repeats |-> None]

\* One mantra of one syllable, recited once, and nothing else.
ShortScript ==
    [preparation |-> None, preparation_repeats |-> None,
     mantras |-> << [syllables |-> << "om" >>, repeats |-> None] >>,
     conclusion |-> None, conclusion_repeats |-> None]

Scripts == { EmptyScript, ShortScript }

RepeatsChoices == { None } \cup { Some(n) : n \in 0..MaxRepeats }

WithRepeats(s, r) ==
    [preparation |-> s.preparation,
     preparation_repeats |-> s.preparation_repeats,
     mantras |-> s.mantras,
     conclusion |-> s.conclusion,
     conclusion_repeats |-> s.conclusion_repeats,
     repeats |-> r]

\* The configurations new() is given.
Configs == { WithRepeats(s, r) : s \in Scripts, r \in RepeatsChoices }

\* ------------------------------------------------------------- state

VARIABLES
    options,        \* MantraMiner::options
    count,          \* MantraMiner::count, the value behind the Arc<Mutex<_>>
    stop_channel,   \* MantraMiner::stop_channel: None or Some(channel)
    workers,        \* the threads spawned so far, in order of spawning
    chans,          \* the mpsc channels, by number
    alive,          \* the MantraMiner has not been dropped
    call,           \* the last public call and what it returned
    job,            \* the function a unit test calls on a capturing Vec<u8>
    stack,          \* its call stack, innermost frame last
    buffer,         \* the bytes written to the Vec<u8> so far
    sleeps,         \* the number of thread::sleep calls so far
    total_count,    \* the total_count handed to a run() under test
    result          \* None while the call runs, then Some(what it returned)

runner == << options, count, stop_channel, workers, chans, alive, call >>

harness == << job, stack, buffer, sleeps, total_count, result >>

vars == << runner, harness >>

Spawned == 1..Len(workers)

WorkerIds == 1..MaxStarts

\* A channel slot before mpsc::channel() has handed it out.
Unopened == [queue |-> << >>, tx |-> FALSE, rx |-> FALSE]

Ok == << "Ok" >>

Err == << "Err" >>

Init ==
    /\ options \in Configs
    /\ count = 0
    /\ stop_channel = None
    /\ workers = << >>
    /\ chans = [c \in WorkerIds |-> Unopened]
    /\ alive = TRUE
    /\ call = [op |-> "new", ret |-> << >>]
    /\ job = [fn |-> "none"]
    /\ stack = << >>
    /\ buffer = << >>
    /\ sleeps = 0
    /\ total_count = 0
    /\ result = None

\* ------------------------------------------------------------- channels

\* Sender::send followed by the drop of the sender: the message is queued
\* when the receiver still exists; the sender is gone either way.  `tag`
\* (the number of workers spawned when the signal is sent) is not part of
\* the message: it records when it was sent.
SendAndDrop(ch, tag) ==
    [ch EXCEPT !.queue = IF ch.rx THEN Append(@, tag) ELSE @, !.tx = FALSE]

EmptyIsDisconnected(ch) ==
    IF ch.queue # << >> THEN "Ok" ELSE "Disconnected"

\* Receiver::try_recv: a queued message comes before disconnection.
TryRecv(ch) ==
    IF ch.queue # << >> THEN "Ok"
    ELSE IF ~ch.tx THEN "Disconnected"
    ELSE "Empty"

\* The channel after try_recv: a queued message is taken.
AfterRecv(ch) ==
    IF ch.queue # << >> THEN [ch EXCEPT !.queue = Tail(@)] ELSE ch

NeverBreaks(r) == FALSE

OnlyDisconnectedBreaks(r) == r = "Disconnected"

\* `Ok(_) | Err(TryRecvError::Disconnected) => break`
BreaksLoop(r) == r \in { "Ok", "Disconnected" }

SharedChannel(n) == 1

\* mpsc::channel() in start(): the n-th start gets a channel of its own.
ChannelOf(n) == n

KeepSender(sc) == sc

\* Option::take leaves None behind.
Taken(sc) == None

StopWithoutSignal(cs, sc, tag) == cs

StopSignalsLatest(cs, sc, tag) ==
    IF sc # None
    THEN [cs EXCEPT ![sc[1]] = SendAndDrop(@, tag)]
    ELSE IF tag >= 1 THEN [cs EXCEPT ![ChannelOf(tag)] = SendAndDrop(@, tag)]
    ELSE cs

\* What stop() does to the channels: with a sender, one signal is sent on
\* its channel and the sender is dropped; without, nothing.
StopChannels(cs, sc, tag) ==
    IF sc = None THEN cs ELSE [cs EXCEPT ![sc[1]] = SendAndDrop(@, tag)]

\* Sender::send fails when the receiver has been dropped.
SendFails(cs, sc) == sc # None /\ ~cs[sc[1]].rx

PropagateSendError(cs, sc) == IF SendFails(cs, sc) THEN Err ELSE Ok

\* What stop() returns: `let _ = tx.send(())` drops the outcome of the
\* send, and `Ok(())` follows.
StopReturn(cs, sc) == Ok

SkipImplicitStop(cs, sc, tag) == cs

\* `self.stop()?` at the head of start().
ImplicitStop(cs, sc, tag) == StopChannels(cs, sc, tag)

\* ------------------------------------------------------------- the runner

ResetCount(c) == 0

\* self.count.clone(): the worker shares the runner's counter.
ClonedCount(c) == c

ClonedWithoutRepeats(o) == [o EXCEPT !.repeats = None]

\* self.options.clone(): a derived Clone copies every field.
ClonedOptions(o) == o

\* The thread start() spawns, about to enter MantraMiner::run.
NewWorker(o, c) ==
    [options |-> o, rx |-> c, pc |-> "loop", run_count |-> 0, pos |-> 1,
     exit |-> "none", got |-> 0]

\* MantraMiner::start
Start ==
    /\ alive
    /\ Len(workers) < MaxStarts
    /\ LET n == Len(workers) + 1
           c == ChannelOf(n)
           stopped == ImplicitStop(chans, stop_channel, Len(workers))
           r == StopReturn(chans, stop_channel)
       IN IF r = Ok
          THEN /\ chans' = [stopped EXCEPT
                               ![c] = [@ EXCEPT !.tx = TRUE, !.rx = TRUE]]
               /\ workers' = Append(workers,
                                    NewWorker(ClonedOptions(options), c))
               /\ stop_channel' = Some(c)
               /\ count' = ClonedCount(count)
               /\ call' = [op |-> "start", ret |-> Ok]
          ELSE \* `self.stop()?` returns the error of stop()
               /\ chans' = stopped
               /\ stop_channel' = Taken(stop_channel)
               /\ call' = [op |-> "start", ret |-> r]
               /\ UNCHANGED << workers, count >>
    /\ UNCHANGED harness
    /\ UNCHANGED << options, alive >>

\* MantraMiner::stop
Stop ==
    /\ alive
    /\ chans' = StopChannels(chans, stop_channel, Len(workers))
    /\ stop_channel' = Taken(stop_channel)
    /\ call' = [op |-> "stop", ret |-> StopReturn(chans, stop_channel)]
    /\ UNCHANGED harness
    /\ UNCHANGED << options, count, workers, alive >>

\* MantraMiner::count
Count ==
    /\ alive
    /\ call' = [op |-> "count", ret |-> << "usize", count >>]
    /\ UNCHANGED harness
    /\ UNCHANGED << options, count, stop_channel, workers, chans, alive >>

\* MantraMiner::options
GetOptions ==
    /\ alive
    /\ call' = [op |-> "options",
                ret |-> << "Options", ClonedOptions(options) >>]
    /\ UNCHANGED harness
    /\ UNCHANGED << options, count, stop_channel, workers, chans, alive >>

\* The MantraMiner goes out of scope: its sender, if any, is dropped with
\* nothing sent.
Drop ==
    /\ alive
    /\ alive' = FALSE
    /\ chans' = IF stop_channel = None THEN chans
                ELSE [chans EXCEPT ![stop_channel[1]].tx = FALSE]
    /\ stop_channel' = None
    /\ call' = [op |-> "drop", ret |-> << >>]
    /\ UNCHANGED harness
    /\ UNCHANGED << options, count, workers >>

\* ------------------------------------------------------------- the worker

InLoop(w) == w \in Spawned /\ workers[w].pc # "exited"

Exited(w) == w \in Spawned /\ workers[w].pc = "exited"

CountedOnTotal(total, run_count) == total

\* `options.should_repeat(run_count)`: the loop counts with the worker's own
\* run_count, not with the shared counter.
LoopCounter(total, run_count) == run_count

PolledAnywhere(pc) == pc \in { "loop", "recite" }

\* try_recv is called at the head of the loop and nowhere else.
AtBoundary(pc) == pc = "loop"

SwallowError(me) == [me EXCEPT !.pos = @ + 1]

\* `?` on a failed write: run returns the error.
AfterFailedWrite(me) == [me EXCEPT !.pc = "exited", !.exit = "error"]

\* run returns: the thread ends and its receiver is dropped.
Leave(w, why, tag) ==
    /\ workers' = [workers EXCEPT ![w].pc = "exited", ![w].exit = why,
                                  ![w].got = tag]
    /\ call' = call

\* `while options.should_repeat(run_count)` is false: the budget is spent.
WorkerBudgetExit(w) ==
    /\ w \in Spawned
    /\ workers[w].pc = "loop"
    /\ ~ShouldRepeat(workers[w].options.repeats,
                    LoopCounter(count, workers[w].run_count))
    /\ Leave(w, "budget", 0)
    /\ chans' = [chans EXCEPT ![workers[w].rx].rx = FALSE]
    /\ UNCHANGED harness
    /\ UNCHANGED << options, count, stop_channel, alive >>

\* try_recv answers Ok or Disconnected: break.
WorkerRecvExit(w) ==
    /\ w \in Spawned
    /\ AtBoundary(workers[w].pc)
    /\ ShouldRepeat(workers[w].options.repeats,
                    LoopCounter(count, workers[w].run_count))
    /\ LET c == workers[w].rx
           r == TryRecv(chans[c])
       IN /\ BreaksLoop(r)
          /\ IF r = "Ok"
             THEN Leave(w, "signal", Head(chans[c].queue))
             ELSE Leave(w, "disconnected", 0)
          /\ chans' = [chans EXCEPT ![c] = [AfterRecv(@) EXCEPT !.rx = FALSE]]
    /\ UNCHANGED harness
    /\ UNCHANGED << options, count, stop_channel, alive >>

\* try_recv answers Empty: the iteration begins.
WorkerBegin(w) ==
    /\ w \in Spawned
    /\ workers[w].pc = "loop"
    /\ ShouldRepeat(workers[w].options.repeats,
                    LoopCounter(count, workers[w].run_count))
    /\ workers[w].options.repeats = None => workers[w].run_count < MaxRunCount
    /\ LET c == workers[w].rx
       IN /\ ~BreaksLoop(TryRecv(chans[c]))
          /\ chans' = [chans EXCEPT ![c] = AfterRecv(@)]
    /\ workers' = [workers EXCEPT ![w].pc = "recite", ![w].pos = 1]
    /\ UNCHANGED harness
    /\ UNCHANGED << options, count, stop_channel, alive, call >>

\* One write_all of the iteration succeeds.
WorkerWrite(w) ==
    /\ w \in Spawned
    /\ workers[w].pc = "recite"
    /\ workers[w].pos <= Len(IterationWrites(workers[w].options))
    /\ workers' = [workers EXCEPT ![w].pos = @ + 1]
    /\ UNCHANGED harness
    /\ UNCHANGED << options, count, stop_channel, chans, alive, call >>

\* One write_all of the iteration fails: `?` returns from run.
WorkerWriteFail(w) ==
    /\ w \in Spawned
    /\ workers[w].pc = "recite"
    /\ workers[w].pos <= Len(IterationWrites(workers[w].options))
    /\ workers' = [workers EXCEPT ![w] = AfterFailedWrite(@)]
    /\ chans' = [chans EXCEPT ![workers[w].rx].rx = (workers'[w].pc # "exited")]
    /\ call' = call
    /\ UNCHANGED harness
    /\ UNCHANGED << options, count, stop_channel, alive >>

OverwriteWithRunCount(total, run_count) == run_count + 1

\* `*total_count.lock() += 1`
LockedIncrement(total, run_count) == total + 1

\* The iteration is over: the counter and run_count are incremented.
WorkerIncrement(w) ==
    /\ w \in Spawned
    /\ workers[w].pc = "recite"
    /\ workers[w].pos > Len(IterationWrites(workers[w].options))
    /\ count' = LockedIncrement(count, workers[w].run_count)
    /\ workers' = [workers EXCEPT ![w].pc = "loop", ![w].run_count = @ + 1]
    /\ UNCHANGED harness
    /\ UNCHANGED << options, stop_channel, chans, alive, call >>

\* A step of worker w that the thread takes by itself when scheduled.
WorkerStep(w) ==
    \/ WorkerBudgetExit(w)
    \/ WorkerRecvExit(w)
    \/ WorkerBegin(w)
    \/ WorkerWrite(w)
    \/ WorkerIncrement(w)

\* ------------------------------------------------------------- specification

Next ==
    \/ Start
    \/ Stop
    \/ Count
    \/ GetOptions
    \/ Drop
    \/ \E w \in WorkerIds : WorkerStep(w)
    \/ \E w \in WorkerIds : WorkerWriteFail(w)

Spec == Init /\ [][Next]_vars

\* The program as start() builds it and as the tests of the source use it:
\* run() writes to io::sink(), which accepts every write, and the runner
\* outlives its workers.  The queries, which change nothing, are left out.
NextLive ==
    \/ Start
    \/ Stop
    \/ \E w \in WorkerIds : WorkerStep(w)

\* Every spawned thread is scheduled again and again.
Fairness == \A w \in WorkerIds : WF_vars(WorkerStep(w))

FairSpec == Init /\ [][NextLive]_vars /\ Fairness

\* ------------------------------------------------------------- bytes

\* A String is its UTF-8 bytes, a char is its code point.

\* The length of the encoding that starts with byte b.
Utf8Len(b) == IF b < 128 THEN 1 ELSE IF b < 224 THEN 2 ELSE IF b < 240 THEN 3 ELSE 4

\* The code point encoded by the bytes bs of one character.
DecodeUtf8(bs) ==
    CASE Len(bs) = 1 -> bs[1]
      [] Len(bs) = 2 -> ((bs[1] - 192) * 64) + (bs[2] - 128)
      [] Len(bs) = 3 ->
             ((bs[1] - 224) * 4096) + ((bs[2] - 128) * 64) + (bs[3] - 128)
      [] OTHER ->
             ((bs[1] - 240) * 262144) + ((bs[2] - 128) * 4096)
                 + ((bs[3] - 128) * 64) + (bs[4] - 128)

RECURSIVE Chars(_)
\* str::chars, collected: the code points of a String, in order.
Chars(str) ==
    IF str = << >> THEN << >>
    ELSE LET n == Utf8Len(str[1])
         IN << DecodeUtf8(SubSeq(str, 1, n)) >>
                \o Chars(SubSeq(str, n + 1, Len(str)))

LowByteOnly(c) == << c % 256 >>

\* char::encode_utf8(..).as_bytes()
EncodeUtf8(c) ==
    IF c < 128 THEN << c >>
    ELSE IF c < 2048 THEN << 192 + (c \div 64), 128 + (c % 64) >>
    ELSE IF c < 65536
         THEN << 224 + (c \div 4096), 128 + ((c \div 64) % 64),
                 128 + (c % 64) >>
    ELSE << 240 + (c \div 262144), 128 + ((c \div 4096) % 64),
            128 + ((c \div 64) % 64), 128 + (c % 64) >>

\* "\n".as_bytes()
Newline == << 10 >>

\* ------------------------------------------------------------- inputs of the unit tests

\* "", "a\u{e9}" and "\u{950}\u{1f549}": characters of 1, 2, 3 and 4 bytes.
Texts ==
    { << >>, << 97, 195, 169 >>, << 224, 165, 144, 240, 159, 149, 137 >> }

OptionalTexts == { None } \cup { Some(t) : t \in Texts }

\* "om", "hum" and "\u{950}"
Om == << 111, 109 >>

Hum == << 104, 117, 109 >>

DevanagariOm == << 224, 165, 144 >>

SyllableLists == { << >>, << Om >>, << Om, Hum >>, << DevanagariOm, Om >> }

Mantras ==
    { [syllables |-> l, repeats |-> r] :
          l \in SyllableLists, r \in RepeatsChoices }

\* The configurations run() is tried on.
RunOptions ==
    { [preparation |-> p, preparation_repeats |-> pr, mantras |-> ms,
       conclusion |-> c, conclusion_repeats |-> cr, repeats |-> r] :
          p \in { None, Some(<< 97, 195, 169 >>) },
          pr \in { None, Some(0), Some(2) },
          ms \in { << >>,
                   << [syllables |-> << Om, Hum >>, repeats |-> None],
                      [syllables |-> << DevanagariOm >>,
                       repeats |-> Some(2)] >> },
          c \in { None, Some(<< 122 >>) },
          cr \in { None, Some(2) },
          r \in RepeatsChoices }

\* ------------------------------------------------------------- the functions, step by step

\* recite_string, Mantra::recite and run called the way the unit tests call
\* them: on a BufWriter over a Vec<u8>, whose writes cannot fail, and with a
\* receiver nobody sends on.  Every write_all appends to `buffer`.

Top == stack[Len(stack)]

Running(fn, pc) == stack # << >> /\ Top.fn = fn /\ Top.pc = pc

SetTop(f) == [stack EXCEPT ![Len(stack)] = f]

\* The call of a function from the frame `caller` leaves off in.
Push(caller, callee) == Append(SetTop(caller), callee)

\* `Ok(())` of the innermost call: back in the caller, or at the test.
ReturnOk ==
    /\ stack' = SubSeq(stack, 1, Len(stack) - 1)
    /\ result' = IF Len(stack) = 1 THEN Some(Ok) ELSE result

ReciteStringFrame(input) ==
    [fn |-> "recite_string", pc |-> "match", input |-> input,
     chars |-> << >>]

\* match input { None => Ok(()), Some(input) => for c in input.chars() .. }
ReciteStringMatch ==
    /\ Running("recite_string", "match")
    /\ IF Top.input = None
       THEN ReturnOk
       ELSE /\ stack' = SetTop([Top EXCEPT !.pc = "for",
                                           !.chars = Chars(Top.input[1])])
            /\ result' = result
    /\ UNCHANGED << job, buffer, sleeps, total_count >>
    /\ UNCHANGED runner

\* One turn of the loop: write_all of the character's bytes, then the sleep.
ReciteStringWrite ==
    /\ Running("recite_string", "for")
    /\ Top.chars # << >>
    /\ buffer' = buffer \o EncodeUtf8(Head(Top.chars))
    /\ sleeps' = sleeps + 1
    /\ stack' = SetTop([Top EXCEPT !.chars = Tail(@)])
    /\ UNCHANGED << job, total_count, result >>
    /\ UNCHANGED runner

\* The iterator is exhausted: Ok(()).
ReciteStringReturn ==
    /\ Running("recite_string", "for")
    /\ Top.chars = << >>
    /\ ReturnOk
    /\ UNCHANGED << job, buffer, sleeps, total_count >>
    /\ UNCHANGED runner

DefaultZero(mantra) == UnwrapOr(mantra.repeats, 0)

\* let repeats = self.repeats.unwrap_or(1);
MantraRepeats(mantra) == UnwrapOr(mantra.repeats, 1)

ReciteFrame(mantra) ==
    [fn |-> "recite", pc |-> "syllable", mantra |-> mantra,
     repeats |-> MantraRepeats(mantra), r |-> 0, s |-> 1]

\* output.write_all(syllable.as_bytes())
ReciteSyllable ==
    /\ Running("recite", "syllable")
    /\ Top.r < Top.repeats
    /\ Top.s <= Len(Top.mantra.syllables)
    /\ buffer' = buffer \o Top.mantra.syllables[Top.s]
    /\ stack' = SetTop([Top EXCEPT !.pc = "newline"])
    /\ UNCHANGED << job, sleeps, total_count, result >>
    /\ UNCHANGED runner

\* output.write_all("\n".as_bytes()), then the sleep.
ReciteNewline ==
    /\ Running("recite", "newline")
    /\ buffer' = buffer \o Newline
    /\ sleeps' = sleeps + 1
    /\ stack' = SetTop([Top EXCEPT !.pc = "syllable", !.s = @ + 1])
    /\ UNCHANGED << job, total_count, result >>
    /\ UNCHANGED runner

\* The inner loop is over: the next turn of `for _ in 0..repeats`.
ReciteNextRepeat ==
    /\ Running("recite", "syllable")
    /\ Top.r < Top.repeats
    /\ Top.s > Len(Top.mantra.syllables)
    /\ stack' = SetTop([Top EXCEPT !.r = @ + 1, !.s = 1])
    /\ UNCHANGED << job, buffer, sleeps, total_count, result >>
    /\ UNCHANGED runner

\* The outer loop is over: Ok(()).
ReciteReturn ==
    /\ Running("recite", "syllable")
    /\ Top.r >= Top.repeats
    /\ ReturnOk
    /\ UNCHANGED << job, buffer, sleeps, total_count >>
    /\ UNCHANGED runner

ConclusionFirst(pc) ==
    CASE pc = "while" -> "concl"
      [] pc = "concl" -> "mantras"
      [] pc = "mantras" -> "prep"
      [] pc = "prep" -> "incr"
      [] pc = "incr" -> "while"

\* The statements of the body of the while loop, in the order of the text.
NextStatement(pc) ==
    CASE pc = "while" -> "prep"
      [] pc = "prep" -> "mantras"
      [] pc = "mantras" -> "concl"
      [] pc = "concl" -> "incr"
      [] pc = "incr" -> "while"

RunFrame(o) ==
    [fn |-> "run", pc |-> "while", options |-> o, run_count |-> 0, i |-> 0]

\* The frame at the next statement, its loop not yet entered.
Advance(f) == [f EXCEPT !.pc = NextStatement(@), !.i = 0]

\* while options.should_repeat(run_count), with try_recv finding Empty.  The
\* bound holds back a run with repeats = None.
RunWhile ==
    /\ Running("run", "while")
    /\ Top.options.repeats = None => Top.run_count < MaxRunCount
    /\ IF ShouldRepeat(Top.options.repeats, Top.run_count)
       THEN stack' = SetTop(Advance(Top)) /\ result' = result
       ELSE ReturnOk
    /\ UNCHANGED << job, buffer, sleeps, total_count >>
    /\ UNCHANGED runner

\* for _ in 0..preparation_repeats { recite_string(&options.preparation) }
RunPreparation ==
    /\ Running("run", "prep")
    /\ stack' = IF Top.i < UnwrapOr(Top.options.preparation_repeats, 1)
                THEN Push([Top EXCEPT !.i = @ + 1],
                          ReciteStringFrame(Top.options.preparation))
                ELSE SetTop(Advance(Top))
    /\ UNCHANGED << job, buffer, sleeps, total_count, result >>
    /\ UNCHANGED runner

\* for mantra in &options.mantras { mantra.recite() }
RunMantras ==
    /\ Running("run", "mantras")
    /\ stack' = IF Top.i < Len(Top.options.mantras)
                THEN Push([Top EXCEPT !.i = @ + 1],
                          ReciteFrame(Top.options.mantras[Top.i + 1]))
                ELSE SetTop(Advance(Top))
    /\ UNCHANGED << job, buffer, sleeps, total_count, result >>
    /\ UNCHANGED runner

\* for _ in 0..conclusion_repeats { recite_string(&options.conclusion) }
RunConclusion ==
    /\ Running("run", "concl")
    /\ stack' = IF Top.i < UnwrapOr(Top.options.conclusion_repeats, 1)
                THEN Push([Top EXCEPT !.i = @ + 1],
                          ReciteStringFrame(Top.options.conclusion))
                ELSE SetTop(Advance(Top))
    /\ UNCHANGED << job, buffer, sleeps, total_count, result >>
    /\ UNCHANGED runner

\* *total_count.lock() += 1; run_count += 1;
RunIncrement ==
    /\ Running("run", "incr")
    /\ total_count' = LockedIncrement(total_count, Top.run_count)
    /\ stack' = SetTop([Advance(Top) EXCEPT !.run_count = @ + 1])
    /\ UNCHANGED << job, buffer, sleeps, result >>
    /\ UNCHANGED runner

\* A test: one call of one of the three functions on an empty Vec<u8>, next
\* to a runner that was built and is left alone.
InitRecite ==
    /\ options = WithRepeats(EmptyScript, None)
    /\ count = 0
    /\ stop_channel = None
    /\ workers = << >>
    /\ chans = [c \in WorkerIds |-> Unopened]
    /\ alive = TRUE
    /\ call = [op |-> "new", ret |-> << >>]
    /\ \/ \E i \in OptionalTexts :
              /\ job = [fn |-> "recite_string", input |-> i]
              /\ stack = << ReciteStringFrame(i) >>
       \/ \E m \in Mantras :
              /\ job = [fn |-> "recite", mantra |-> m]
              /\ stack = << ReciteFrame(m) >>
       \/ \E o \in RunOptions :
              /\ job = [fn |-> "run", options |-> o]
              /\ stack = << RunFrame(o) >>
    /\ buffer = << >>
    /\ sleeps = 0
    /\ total_count = 0
    /\ result = None

NextRecite ==
    \/ ReciteStringMatch
    \/ ReciteStringWrite
    \/ ReciteStringReturn
    \/ ReciteSyllable
    \/ ReciteNewline
    \/ ReciteNextRepeat
    \/ ReciteReturn
    \/ RunWhile
    \/ RunPreparation
    \/ RunMantras
    \/ RunConclusion
    \/ RunIncrement

ReciteSpec == InitRecite /\ [][NextRecite]_vars

\* ------------------------------------------------------------- vocabulary

\* The sender of worker w's channel has been used by stop() (or by the stop
\* inside a later start()) or dropped with the runner.
Cancelled(w) == w \in Spawned /\ ~chans[workers[w].rx].tx

\* Worker w was spawned, and since then there has been no stop(), no later
\* start(), no drop of the runner and no failed write.
Undisturbed(w) ==
    /\ w \in Spawned
    /\ alive
    /\ chans[workers[w].rx].tx
    /\ workers[w].exit # "error"

\* Worker w stands at the head of its loop only because the model bounds the
\* iterations of a worker with repeats = None.
HeldByBound(w) ==
    /\ w \in Spawned
    /\ workers[w].pc = "loop"
    /\ workers[w].options.repeats = None
    /\ workers[w].run_count >= MaxRunCount
    /\ ~BreaksLoop(TryRecv(chans[workers[w].rx]))

RECURSIVE IterationsOfFirst(_)
\* The iterations completed by the first k workers together.
IterationsOfFirst(k) ==
    IF k = 0 THEN 0 ELSE workers[k].run_count + IterationsOfFirst(k - 1)

\* ------------------------------------------------------------- claims

\* C1: with repeats = Some(n), after one start() and with no stop(), no
\* further start() and no failed write, the counter never exceeds n, and a
\* worker that is scheduled fairly brings it to n, where it stays.
C1_BoundedRunStopsAtBudget ==
    /\ []((options.repeats # None /\ Undisturbed(1))
              => count <= options.repeats[1])
    /\ (<>[]Undisturbed(1))
           => <>[](options.repeats = None \/ count = options.repeats[1])

C1_Witness ==
    /\ options.repeats = Some(2)
    /\ Undisturbed(1)
    /\ workers[1].exit = "budget"
    /\ count = 2

\* C2: with repeats = None, after start() and with no stop() and no failed
\* write, the counter passes every bound B (every B the model can count
\* past) when the worker is scheduled fairly.
C2_UnboundedRunPassesEveryBound ==
    (<>[](options.repeats = None /\ \E w \in WorkerIds : Undisturbed(w)))
        => <>(\A B \in 0..(MaxRunCount - 1) : count > B)

C2_Witness ==
    /\ options.repeats = None
    /\ Undisturbed(1)
    /\ workers[1].run_count = MaxRunCount
    /\ count = MaxRunCount

\* C3: once stop() has returned and no start() follows, the counter reaches
\* a value it never leaves (and not because the model's bound holds a
\* worker back), whatever the configuration.
C3_CountSettlesAfterStop ==
    (<>[](stop_channel = None))
        => \E c \in 0..MaxTotal :
               <>[](count = c /\ \A w \in WorkerIds : ~HeldByBound(w))

C3_Witness ==
    /\ call.op = "stop"
    /\ stop_channel = None
    /\ options.repeats = None
    /\ \E w \in Spawned :
           /\ workers[w].exit = "signal"
           /\ workers[w].run_count >= 1
           /\ count = workers[w].run_count

\* C4 as claimed: at most one spawned worker is inside its loop.
C4_AtMostOneWorkerInLoop ==
    Cardinality({ w \in Spawned : InLoop(w) }) <= 1

\* C4, amended: at most one worker that has not been cancelled is inside
\* its loop; the workers of earlier starts may still be inside theirs.
C4_AtMostOneUncancelledWorker ==
    Cardinality({ w \in Spawned : InLoop(w) /\ ~Cancelled(w) }) <= 1

C4_Witness ==
    /\ Len(workers) = 2
    /\ workers[1].pc = "recite" /\ Cancelled(1)
    /\ workers[2].pc = "recite" /\ ~Cancelled(2)

\* C5: a worker that stop() has signalled while it was inside its loop
\* leaves the loop, whatever the configuration and whether or not it had
\* made its first boundary check: no worker stays cancelled and inside its
\* loop for ever (a cancelled worker stays cancelled, and a worker that has
\* left its loop never enters it again).
C5_StoppedWorkerExits ==
    \A w \in WorkerIds : []<>(~(Cancelled(w) /\ InLoop(w)))

C5_Witness ==
    /\ options.repeats = None
    /\ Len(workers) = 2
    /\ workers[1].exit = "signal" /\ workers[1].run_count = 0
    /\ workers[2].exit = "signal" /\ workers[2].run_count >= 1

\* C6: a worker that leaves its loop on a signal has received a signal that
\* was sent after it was spawned (got is the number of workers that existed
\* when the signal was sent).
C6_NoStaleSignal ==
    \A w \in Spawned : workers[w].exit = "signal" => workers[w].got >= w

C6_Witness ==
    /\ Len(workers) = 2
    /\ call.op = "stop"
    /\ workers[1].exit = "signal" /\ workers[1].got = 1
    /\ workers[2].exit = "signal" /\ workers[2].got = 2

\* C7: the counter is the number of iterations completed by all the workers
\* ever spawned; an iteration under way or given up adds nothing.
C7_CountIsCompletedIterations ==
    count = IterationsOfFirst(Len(workers))

C7_Witness ==
    /\ Len(workers) = 2
    /\ workers[1].exit = "error" /\ workers[1].pos > 1
    /\ workers[1].run_count >= 1
    /\ workers[2].pc = "recite" /\ workers[2].pos > 1
    /\ workers[2].run_count >= 1
    /\ count = workers[1].run_count + workers[2].run_count

\* C8: the counter starts at 0, never decreases, and start(), stop(),
\* count() and options() leave it as it is: a restart goes on from the
\* value it finds.
C8_CounterOnlyGrows ==
    /\ count = 0
    /\ [][ /\ count' >= count
           /\ (Start \/ Stop \/ Count \/ GetOptions) => count' = count ]_vars

C8_Witness ==
    /\ Len(workers) = 2
    /\ call.op = "start"
    /\ workers[1].exit = "budget"
    /\ chans[1].queue = << >>
    /\ count = workers[1].run_count
    /\ count > 0

\* C9: stop() on a runner that holds no sender returns Ok and changes
\* nothing but the record of the call; and stop() always leaves the runner
\* without a sender, so that a second stop() is such a call.
C9_IdleStopChangesNothing ==
    [][ /\ (Stop /\ stop_channel = None)
            => /\ UNCHANGED << options, count, stop_channel, workers,
                               chans, alive >>
               /\ call'.ret = Ok
        /\ Stop => stop_channel' = None ]_vars

C9_Witness ==
    /\ call.op = "stop"
    /\ stop_channel = None
    /\ workers = << >>

\* C10 as claimed: the runner holds a sender exactly when the worker of its
\* most recent start() is still inside its loop.
C10_RunningIffWorkerActive ==
    alive => ((stop_channel # None) <=> InLoop(Len(workers)))

\* C10, amended: the runner holds a sender exactly when the channel of its
\* most recent start() has not been cancelled, and the sender is that
\* channel's; a worker that is inside its loop and not cancelled is the
\* worker of that channel.
C10_RunningIffChannelLive ==
    alive =>
        /\ (stop_channel # None) <=> (workers # << >> /\ ~Cancelled(Len(workers)))
        /\ stop_channel # None
               => /\ stop_channel = Some(workers[Len(workers)].rx)
                  /\ chans[stop_channel[1]].queue = << >>
        /\ \A w \in Spawned :
               (InLoop(w) /\ ~Cancelled(w)) => stop_channel = Some(workers[w].rx)

C10_Witness ==
    /\ alive
    /\ stop_channel # None
    /\ workers[Len(workers)].exit = "budget"
    /\ workers[Len(workers)].run_count = 2

\* C11: while the runner is alive and no write fails, a worker with
\* repeats = None leaves its loop only at the head of the loop, only on a
\* signal, and only when stop() (or a later start()) has used the sender of
\* its channel; a worker whose channel nobody cancelled never leaves.
C11_UnboundedLeavesOnlyOnStop ==
    [][ \A w \in WorkerIds :
            ( /\ w \in Spawned
              /\ alive
              /\ workers[w].options.repeats = None
              /\ workers[w].pc # "exited"
              /\ workers'[w].pc = "exited"
              /\ workers'[w].exit # "error" )
            => /\ workers[w].pc = "loop"
               /\ Cancelled(w)
               /\ workers'[w].exit = "signal" ]_vars

C11_Witness ==
    /\ alive
    /\ options.repeats = None
    /\ \E w \in Spawned :
           /\ workers[w].exit = "signal"
           /\ workers[w].run_count >= 1
           /\ workers[w].pos > Len(IterationWrites(workers[w].options))

\* C12: stop() can be called in every state of a live runner and start() in
\* every state the model's bound allows; both return Ok, also when the
\* previous worker has gone and the send fails; stop() leaves the runner
\* without a sender, start() leaves it with the sender of a channel that was
\* not in use before, on which the new worker listens.
C12_StartAndStopSucceed ==
    /\ [](alive => ENABLED Stop)
    /\ []((alive /\ Len(workers) < MaxStarts) => ENABLED Start)
    /\ [][ /\ Stop => (call'.ret = Ok /\ stop_channel' = None)
           /\ Start =>
                /\ call'.ret = Ok
                /\ Len(workers') = Len(workers) + 1
                /\ LET c == workers'[Len(workers')].rx
                   IN /\ stop_channel' = Some(c)
                      /\ chans[c] = Unopened
                      /\ chans'[c] = [queue |-> << >>, tx |-> TRUE,
                                      rx |-> TRUE] ]_vars

C12_Witness ==
    /\ alive
    /\ call = [op |-> "stop", ret |-> Ok]
    /\ stop_channel = None
    /\ Len(workers) = 2
    /\ workers[1].exit = "error" /\ chans[1].queue = << >>
    /\ workers[2].exit = "budget" /\ chans[2].queue = << >>

\* C13: no step changes the options the runner was built with, and options()
\* returns a value equal to them, whatever was called before and however far
\* the workers have got.
C13_OptionsRoundTrip ==
    /\ [][options' = options]_vars
    /\ [](call.op = "options" => call.ret = << "Options", options >>)

C13_Witness ==
    /\ call.op = "options"
    /\ options.repeats = Some(2)
    /\ options.mantras # << >>
    /\ Len(workers) = 2
    /\ stop_channel = None
    /\ count >= 1

\* C14: a worker whose channel has been cancelled increments the counter at
\* most once more: at the head of its loop it begins no further iteration,
\* and inside an iteration it gets to the one increment that brings it back
\* to the head of the loop.  Hence with a single worker, a count() made
\* after stop() is at most 1 below every later value of the counter.
C14_AtMostOneIncrementAfterStop ==
    /\ []((Len(workers) = 1 /\ alive /\ stop_channel = None
              /\ call.op = "count") => count <= call.ret[2] + 1)
    /\ [][ \A w \in WorkerIds :
               (w \in Spawned /\ Cancelled(w)) =>
                 /\ workers[w].pc = "loop"
                        => /\ workers'[w].pc # "recite"
                           /\ workers'[w].run_count = workers[w].run_count
                 /\ workers'[w].run_count <= workers[w].run_count + 1
                 /\ workers'[w].run_count > workers[w].run_count
                        => /\ workers[w].pc = "recite"
                           /\ workers'[w].pc = "loop" ]_vars

C14_Witness ==
    /\ Len(workers) = 1
    /\ alive
    /\ stop_channel = None
    /\ call.op = "count"
    /\ count = call.ret[2] + 1
    /\ workers[1].exit = "signal"

\* C15: cancellation is not acted on inside an iteration: a worker inside an
\* iteration takes no message from its channel, leaves the loop from there
\* only on a failed write, and otherwise comes out of the iteration by the
\* increment, at the head of the loop; with no failed write it does not stay
\* inside the iteration for ever.
C15_NoCancellationInsideIteration ==
    /\ \A w \in WorkerIds :
           []<>(~(w \in Spawned /\ workers[w].pc = "recite"))
    /\ [][ \A w \in WorkerIds :
               (w \in Spawned /\ workers[w].pc = "recite") =>
                 /\ Len(chans'[workers[w].rx].queue)
                        >= Len(chans[workers[w].rx].queue)
                 /\ workers'[w].pc = "exited" => workers'[w].exit = "error"
                 /\ workers'[w].pc = "loop"
                        => /\ workers'[w].run_count = workers[w].run_count + 1
                           /\ count' = count + 1 ]_vars

C15_Witness ==
    /\ call.op = "stop"
    /\ stop_channel = None
    /\ \E w \in Spawned :
           /\ workers[w].pc = "recite"
           /\ chans[workers[w].rx].queue # << >>

\* C16: the budget is the worker's own: with repeats = Some(n) no worker
\* completes more than n iterations, whatever the counter says, and when
\* every worker spawned so far has spent its budget the counter is n times
\* their number.
C16_BudgetIsPerWorker ==
    options.repeats # None =>
        /\ \A w \in Spawned : workers[w].run_count <= options.repeats[1]
        /\ \A w \in Spawned :
               workers[w].exit = "budget"
                   => workers[w].run_count = options.repeats[1]
        /\ (\A w \in Spawned : workers[w].exit = "budget")
               => count = Len(workers) * options.repeats[1]

C16_Witness ==
    /\ options.repeats = Some(2)
    /\ Len(workers) = 2
    /\ workers[1].exit = "budget" /\ chans[1].queue = << >>
    /\ workers[2].exit = "budget"
    /\ count = 4

\* C17: a write the sink rejects ends the worker there and then: nothing is
\* counted for the iteration, nothing the public operations read changes
\* (the runner keeps its sender), and the worker never moves again.
C17_FailedWriteEndsWorkerSilently ==
    [][ \A w \in WorkerIds :
            /\ WorkerWriteFail(w)
                   => /\ workers'[w].pc = "exited"
                      /\ workers'[w].exit = "error"
                      /\ workers'[w].pos = workers[w].pos
                      /\ workers'[w].run_count = workers[w].run_count
                      /\ UNCHANGED << count, stop_channel, call, options,
                                      alive >>
            /\ (w \in Spawned /\ workers[w].exit = "error")
                   => workers'[w] = workers[w] ]_vars

C17_Witness ==
    /\ alive
    /\ call.op = "count"
    /\ call.ret = << "usize", count >>
    /\ \E w \in Spawned :
           /\ workers[w].exit = "error"
           /\ workers[w].pos > 1
           /\ workers[w].run_count >= 1
           /\ stop_channel = Some(workers[w].rx)

\* What the three functions are to write, in the words of their description.

IsPrefix(a, b) == Len(a) <= Len(b) /\ a = SubSeq(b, 1, Len(a))

\* The number of repeats an optional number stands for.
Times(o, default) == IF o = None THEN default ELSE o[1]

TextOf(o) == IF o = None THEN << >> ELSE o[1]

\* The number of characters in a UTF-8 text: its bytes other than
\* continuation bytes.
CharCount(bytes) ==
    Cardinality({ i \in 1..Len(bytes) : bytes[i] < 128 \/ bytes[i] >= 192 })

RECURSIVE Lines(_)
Lines(syllables) ==
    IF syllables = << >> THEN << >>
    ELSE Head(syllables) \o << 10 >> \o Lines(Tail(syllables))

MantraOutput(m) == Repeat(Lines(m.syllables), Times(m.repeats, 1))

RECURSIVE MantrasOutput(_)
MantrasOutput(ms) ==
    IF ms = << >> THEN << >>
    ELSE MantraOutput(Head(ms)) \o MantrasOutput(Tail(ms))

IterationOutput(o) ==
    Repeat(TextOf(o.preparation), Times(o.preparation_repeats, 1))
        \o MantrasOutput(o.mantras)
        \o Repeat(TextOf(o.conclusion), Times(o.conclusion_repeats, 1))

\* C18: the output of run() is, at every moment, as many whole iterations as
\* the counter says followed by the beginning of one more, an iteration
\* being the preparation preparation_repeats times (default 1), the mantras
\* in list order, each in full, and the conclusion conclusion_repeats times
\* (default 1); the output is whole iterations at the head of the loop, and
\* the iteration is complete when its increment is made.
C18_IterationsInOrder ==
    job.fn = "run" =>
        LET it == IterationOutput(job.options)
        IN /\ IsPrefix(Repeat(it, total_count), buffer)
           /\ IsPrefix(buffer, Repeat(it, total_count + 1))
           /\ stack # << >> => stack[1].run_count = total_count
           /\ (Running("run", "while") \/ result # None)
                  => buffer = Repeat(it, total_count)
           /\ Running("run", "incr") => buffer = Repeat(it, total_count + 1)

C18_Witness ==
    /\ job.fn = "run"
    /\ result = Some(Ok)
    /\ total_count = 2
    /\ job.options.preparation # None
    /\ job.options.preparation_repeats = Some(2)
    /\ job.options.mantras # << >>
    /\ job.options.conclusion # None
    /\ job.options.conclusion_repeats = None
    /\ Len(buffer) = 2 * (6 + 15 + 1)

\* C19: Mantra::recite writes s1 "\n" ... sk "\n", r times over (r = 1 for
\* None, nothing for Some(0)), and nothing else: what is written is always a
\* beginning of that, and all of it when the call returns Ok, one pause per
\* syllable written.
C19_MantraRecitedInFull ==
    job.fn = "recite" =>
        /\ IsPrefix(buffer, MantraOutput(job.mantra))
        /\ result # None =>
               /\ result = Some(Ok)
               /\ buffer = MantraOutput(job.mantra)
               /\ sleeps = Times(job.mantra.repeats, 1)
                               * Len(job.mantra.syllables)
        /\ result = None => ENABLED NextRecite

C19_Witness ==
    /\ job.fn = "recite"
    /\ result = Some(Ok)
    /\ job.mantra.repeats = Some(2)
    /\ Len(job.mantra.syllables) = 2
    /\ Len(buffer) = 14
    /\ sleeps = 4

\* C20: recite_string(Some(text)) writes the characters of text one at a
\* time, in order and with nothing added: the output is always a beginning
\* of text made of whole characters, one pause each, and text itself when
\* the call returns Ok; recite_string(None) returns Ok at once, with nothing
\* written and no pause.
C20_StringRecitedVerbatim ==
    job.fn = "recite_string" =>
        /\ result \in { None, Some(Ok) }
        /\ result = None => ENABLED NextRecite
        /\ sleeps = CharCount(buffer)
        /\ IF job.input = None
           THEN /\ buffer = << >>
                /\ sleeps = 0
                /\ result = None => stack = << ReciteStringFrame(None) >>
           ELSE /\ IsPrefix(buffer, job.input[1])
                /\ result # None => buffer = job.input[1]

C20_Witness ==
    /\ job.fn = "recite_string"
    /\ result = Some(Ok)
    /\ job.input = Some(<< 224, 165, 144, 240, 159, 149, 137 >>)
    /\ buffer = << 224, 165, 144, 240, 159, 149, 137 >>
    /\ sleeps = 2

====
